---- MODULE Spec2Model ----
(***************************************************************************)
(* A model of pedarProbe's node tree (src/pedarProbe/node.py) and of its   *)
(* bottom-up aggregation (src/pedarProbe/analyse.py).                      *)
(*                                                                         *)
(* Python objects are modelled as a heap.  A node is an index of NodeIds;  *)
(* its dict part (Node derives from Dict) is the ordered sequence of       *)
(* <<key, node>> items in `items`; its attributes are the functions name,  *)
(* level, loc, source, attribute, df, start, end.  The two mutable         *)
(* containers a node refers to, its loc list and its attribute dict, are   *)
(* objects of their own (`lists`, `dicts`), so that aliasing is visible.   *)
(***************************************************************************)
EXTENDS Integers, Sequences, FiniteSets, TLC

\* ------------------------------------------------------------------ bounds
\* the number of calls of one run of Spec, and of the nodes it constructs
MaxCalls == 5
MaxSpecNodes == 3
\* the number of nodes of the branching trees SpecTree starts from, and of
\* the calls made on a tree
MaxTreeNodes == 4
MaxTreeCalls == 2
\* the number of nodes of the branching trees SpecLayout starts from, and of
\* the calls made on a tree
MaxLayoutNodes == 3
MaxLayoutCalls == 2
\* the number of calls SpecQuery makes on a tree
MaxQueryCalls == 2
\* the number of calls SpecBuild makes on a tree
MaxBuildCalls == 2
\* the number of entries of the guiding file SpecParse reads, and of the
\* stance columns of an entry
MaxEntries == 2
MaxStances == 2
\* the level of the stance layer: default_loc_map['stance'], and the level
\* src/analyse.py tests for
StanceLevel == 5
\* the nodes of a chain from the root to a stance, one per layer
ChainLen == StanceLevel + 1
\* the pool of node objects: enough for such a chain and its restructured copy
NumNodes == 2 * ChainLen

NodeIds == 1..NumNodes
ObjIds == 1..NumNodes

Names == {"a", "b"}
Classes == {"Node", "PedarNode", "DataNode"}
Channels == {"c1", "c2"}
StatNames == {"sensor_peak", "sensor_pti"}

NoNode == 0
NoObj == 0
NoClass == "none"
NoValue == "unset"
\* the attribute is not set on the object (reading it is an AttributeError)
NoTime == -1
NoFrame == [id |-> 0, cols |-> {}, index |-> <<>>, rows |-> <<>>]
\* Python's None, as an item of a loc list and as a node name
PyNone == "<None>"
\* node.loc_map refers to the module's one dict object, default_loc_map
LocMapObj == 1
\* the value of default_loc_map when the module is loaded: the ordered
\* <<layer, level>> items of the dict
DefaultLocMap ==
  << <<"root", 0>>, <<"subject", 1>>, <<"condition", 2>>, <<"trail", 3>>,
     <<"foot", 4>>, <<"stance", StanceLevel>> >>

\* ------------------------------------------------------------- data frames
\* A pandas DataFrame: `index` the time stamps (in ticks), `cols` the sensor
\* ids, `rows[i][c]` the value of sensor c at index[i].
Frame1 ==
  [id |-> 1, cols |-> {"c1", "c2"}, index |-> <<0, 1>>,
   rows |-> <<[c \in {"c1", "c2"} |-> IF c = "c1" THEN 10 ELSE 20],
              [c \in {"c1", "c2"} |-> IF c = "c1" THEN 5 ELSE 10]>>]
Frame2 ==
  [id |-> 2, cols |-> {"c1", "c2"}, index |-> <<0, 2>>,
   rows |-> <<[c \in {"c1", "c2"} |-> IF c = "c1" THEN 2 ELSE 40],
              [c \in {"c1", "c2"} |-> IF c = "c1" THEN 30 ELSE 1]>>]
Frame3 ==
  [id |-> 3, cols |-> {"c1"}, index |-> <<0>>,
   rows |-> <<[c \in {"c1"} |-> 4]>>]
Frames == {Frame1, Frame2, Frame3}

\* The (df, start, end) triples DataNode.setup is called with.
LeafInputs ==
  {[df |-> f, start |-> f.index[1], end |-> f.index[Len(f.index)] + 1] : f \in Frames}

VARIABLES cls, name, level, loc, lists, source, items, attribute, dicts,
          df, start, end, peak, loc_map, default_loc_map, last, calls

vars == <<cls, name, level, loc, lists, source, items, attribute, dicts,
          df, start, end, peak, loc_map, default_loc_map, last, calls>>

\* The heap as one value: what an operation takes and what it gives back.
H ==
  [cls |-> cls, name |-> name, level |-> level, loc |-> loc, lists |-> lists,
   source |-> source, items |-> items, attribute |-> attribute, dicts |-> dicts,
   df |-> df, start |-> start, end |-> end, peak |-> peak,
   loc_map |-> loc_map, default_loc_map |-> default_loc_map]

Install(h) ==
  /\ cls' = h.cls
  /\ name' = h.name
  /\ level' = h.level
  /\ loc' = h.loc
  /\ lists' = h.lists
  /\ source' = h.source
  /\ items' = h.items
  /\ attribute' = h.attribute
  /\ dicts' = h.dicts
  /\ df' = h.df
  /\ start' = h.start
  /\ end' = h.end
  /\ peak' = h.peak
  /\ loc_map' = h.loc_map
  /\ default_loc_map' = h.default_loc_map

\* ---------------------------------------------------------------- helpers
Range(s) == {s[i] : i \in DOMAIN s}

Min(S) == CHOOSE x \in S : \A y \in S : x <= y

Max(S) == CHOOSE x \in S : \A y \in S : x >= y

\* The object a node gets when the code creates a new list or dict for it:
\* any object no other node refers to (the node's own index when free).
FreshObj(refs, n) ==
  LET used == {refs[m] : m \in NodeIds \ {n}}
      free == ObjIds \ used
  IN IF n \in free THEN n ELSE Min(free)

\* Objects no node refers to are garbage: their content is dropped.
Collect(heap, refs, empty) ==
  [o \in ObjIds |-> IF o \in Range(refs) THEN heap[o] ELSE empty]

EmptyDict == [k \in {} |-> NoValue]

\* node.sensor_peak, the attribute src/analyse.py sets: not set, or a Series
NoPeak == [set |-> FALSE, val |-> [c \in {} |-> <<0, 1>>]]

EmptyHeap ==
  [cls |-> [n \in NodeIds |-> NoClass],
   name |-> [n \in NodeIds |-> NoValue],
   level |-> [n \in NodeIds |-> 0],
   loc |-> [n \in NodeIds |-> NoObj],
   lists |-> [o \in ObjIds |-> <<>>],
   source |-> [n \in NodeIds |-> NoNode],
   items |-> [n \in NodeIds |-> <<>>],
   attribute |-> [n \in NodeIds |-> NoObj],
   dicts |-> [o \in ObjIds |-> EmptyDict],
   df |-> [n \in NodeIds |-> NoFrame],
   start |-> [n \in NodeIds |-> NoTime],
   end |-> [n \in NodeIds |-> NoTime],
   peak |-> [n \in NodeIds |-> NoPeak],
   loc_map |-> [n \in NodeIds |-> NoObj],
   default_loc_map |-> DefaultLocMap]

\* Node.branch_names: dict.keys(), in insertion order
branch_names(h, n) == [i \in DOMAIN h.items[n] |-> h.items[n][i][1]]

\* Node.branches: dict.values(), in insertion order
branches(h, n) == [i \in DOMAIN h.items[n] |-> h.items[n][i][2]]

\* Node.is_leaf
is_leaf(h, n) == Len(branch_names(h, n)) = 0

\* dict.__getitem__: self[key]
GetItem(its, key) ==
  LET hit == {i \in DOMAIN its : its[i][1] = key}
  IN IF hit = {} THEN NoNode ELSE its[CHOOSE i \in hit : TRUE][2]

\* dict.__setitem__: self[key] = value; an existing key keeps its position
SetItem(its, key, value) ==
  IF \E i \in DOMAIN its : its[i][1] = key
  THEN [i \in DOMAIN its |-> IF its[i][1] = key THEN <<key, value>> ELSE its[i]]
  ELSE Append(its, <<key, value>>)

Allocated == {n \in NodeIds : cls[n] # NoClass}

NoCall ==
  [op |-> "none", self |-> NoNode, arg |-> NoNode, result |-> "None",
   warned |-> FALSE, attr_name |-> NoValue, attr_func |-> NoValue,
   again |-> FALSE, start_level |-> 0, layout |-> <<>>, ret |-> NoNode,
   out |-> <<>>, nodes |-> <<>>, entry |-> <<>>, stances |-> <<>>]

\* ------------------------------------------------------------------ setup
\* Node.setup / PedarNode.setup / DataNode.setup on node n of class c.  The
\* first setup of a node follows its construction (`n = c()`); a later one
\* re-initialises the same object and leaves its dict items and source alone.
NodeSetup(h, n, nm) ==
  LET newLoc == FreshObj(h.loc, n)
      loc1 == [h.loc EXCEPT ![n] = newLoc]
  IN [h EXCEPT !.name[n] = nm,
               !.level[n] = 0,
               !.loc = loc1,
               !.lists = Collect([h.lists EXCEPT ![newLoc] = <<nm>>], loc1, <<>>)]

\* DynamicNode.setup: self.loc_map = default_loc_map, the object itself
DynamicNodeSetup(h, n, nm) ==
  [NodeSetup(h, n, nm) EXCEPT !.loc_map[n] = LocMapObj]

PedarNodeSetup(h, n, nm) ==
  LET h1 == DynamicNodeSetup(h, n, nm)
      newAttr == FreshObj(h1.attribute, n)
      attr1 == [h1.attribute EXCEPT ![n] = newAttr]
  IN [h1 EXCEPT !.attribute = attr1,
                !.dicts = Collect([h1.dicts EXCEPT ![newAttr] = EmptyDict], attr1, EmptyDict)]

DataNodeSetup(h, n, nm, rec) ==
  LET h1 == PedarNodeSetup(h, n, nm)
  IN [h1 EXCEPT !.df[n] = rec.df, !.start[n] = rec.start, !.end[n] = rec.end]

\* c().setup(...) dispatched on the class
setup(h, n, c, nm, rec) ==
  LET h0 == [h EXCEPT !.cls[n] = c]
  IN CASE c = "Node" -> NodeSetup(h0, n, nm)
       [] c = "PedarNode" -> PedarNodeSetup(h0, n, nm)
       [] c = "DataNode" -> DataNodeSetup(h0, n, nm, rec)

NoRec == [df |-> NoFrame, start |-> NoTime, end |-> NoTime]

SetupInputs(c) == IF c = "DataNode" THEN LeafInputs ELSE {NoRec}

\* Nodes are constructed in index order (which object is which is immaterial).
SetupWithin(budget) ==
  /\ calls < budget
  /\ \E n \in 1..MaxSpecNodes, nm \in Names :
       /\ \A m \in 1..(n - 1) : cls[m] # NoClass
       /\ \E c \in (IF cls[n] = NoClass THEN Classes ELSE {cls[n]}) :
            \E rec \in SetupInputs(c) :
              /\ Install(setup(H, n, c, nm, rec))
              /\ last' = [NoCall EXCEPT !.op = "setup", !.self = n]
  /\ calls' = calls + 1

Setup == SetupWithin(MaxCalls)

\* ------------------------------------------------------------- add_branch
\* Node.set_source
set_source(h, n, source_node) == [h EXCEPT !.source[n] = source_node]

\* add_branch as its docstring has it: the warning is printed and the node
\* added replaces the branch of its name.
add_branch_replacing(h, self, branch_node) ==
  LET h1 == [h EXCEPT !.items[self] = SetItem(@, h.name[branch_node], branch_node)]
      h2 == set_source(h1, branch_node, self)
      newLoc == FreshObj(h2.loc, branch_node)
      loc1 == [h2.loc EXCEPT ![branch_node] = newLoc]
      h3 == [h2 EXCEPT !.loc = loc1,
                       !.lists = Collect([h2.lists EXCEPT ![newLoc] = h2.lists[h2.loc[self]]],
                                         loc1, <<>>)]
      h4 == [h3 EXCEPT !.lists[h3.loc[branch_node]] = Append(@, h3.name[branch_node])]
      h5 == [h4 EXCEPT !.level[branch_node] = Len(h4.lists[h4.loc[branch_node]]) - 1]
  IN [h |-> h5, warned |-> h.name[branch_node] \in Range(branch_names(h, self))]

\* Node.add_branch: [h |-> the heap after the call, warned |-> the warning was printed]
add_branch(h, self, branch_node) ==
  IF h.name[branch_node] \in Range(branch_names(h, self))
  THEN \* print the warning and return
       [h |-> h, warned |-> TRUE]
  ELSE LET h1 == [h EXCEPT !.items[self] = SetItem(@, h.name[branch_node], branch_node)]
           h2 == set_source(h1, branch_node, self)
           \* branch_node.loc = copy.deepcopy(self.loc)
           newLoc == FreshObj(h2.loc, branch_node)
           loc1 == [h2.loc EXCEPT ![branch_node] = newLoc]
           h3 == [h2 EXCEPT !.loc = loc1,
                            !.lists = Collect([h2.lists EXCEPT ![newLoc] = h2.lists[h2.loc[self]]],
                                              loc1, <<>>)]
           \* branch_node.loc.append(branch_node.name)
           h4 == [h3 EXCEPT !.lists[h3.loc[branch_node]] = Append(@, h3.name[branch_node])]
           \* branch_node.level = len(branch_node.loc) - 1
           h5 == [h4 EXCEPT !.level[branch_node] = Len(h4.lists[h4.loc[branch_node]]) - 1]
       IN [h |-> h5, warned |-> FALSE]

AddBranchWithin(budget) ==
  /\ calls < budget
  /\ \E self \in Allocated, branch_node \in Allocated :
       LET r == add_branch(H, self, branch_node)
       IN /\ Install(r.h)
          /\ last' = [NoCall EXCEPT !.op = "add_branch", !.self = self,
                                    !.arg = branch_node, !.warned = r.warned]
  /\ calls' = calls + 1

AddBranch == AddBranchWithin(MaxCalls)

\* ------------------------------------------------------------- rationals
\* A sensor value is a rational <<numerator, denominator>> in lowest terms
\* (the code's floats, without their rounding).
RECURSIVE GCD(_, _)
GCD(a, b) == IF b = 0 THEN a ELSE GCD(b, a % b)

Rat(n, d) == LET g == GCD(n, d) IN <<n \div g, d \div g>>

RatAdd(x, y) == Rat(x[1] * y[2] + y[1] * x[2], x[2] * y[2])

RECURSIVE RatSum(_)
RatSum(s) == IF s = <<>> THEN <<0, 1>> ELSE RatAdd(s[1], RatSum(Tail(s)))

\* the values at c of the series of s that have c in their index
RECURSIVE SelectIdx(_, _)
SelectIdx(s, c) ==
  IF s = <<>> THEN <<>>
  ELSE IF c \in DOMAIN s[1] THEN <<s[1][c]>> \o SelectIdx(Tail(s), c)
       ELSE SelectIdx(Tail(s), c)

\* --------------------------------------------------------------- analyse
\* analyse.sensor_peak: node.df.max(), the maximum of each column.
\* [exc |-> "None" or the exception raised, val |-> the Series returned, a
\* function from sensor ids].
NoSeries == [c \in {} |-> <<0, 1>>]

Raise(e) == [exc |-> e, val |-> NoSeries]

Return(v) == [exc |-> "None", val |-> v]

sensor_peak(h, node) ==
  IF h.df[node] = NoFrame THEN Raise("AttributeError")
  ELSE LET f == h.df[node]
       IN Return([c \in f.cols |-> <<Max({f.rows[i][c] : i \in DOMAIN f.rows}), 1>>])

RECURSIVE ColSum(_, _)
ColSum(rows, c) == IF rows = <<>> THEN 0 ELSE rows[1][c] + ColSum(Tail(rows), c)

\* analyse.sensor_pti: (node.df * (index[1] - index[0])).sum()
sensor_pti(h, node) ==
  IF h.df[node] = NoFrame THEN Raise("AttributeError")
  ELSE LET f == h.df[node]
       IN IF Len(f.index) < 2 THEN Raise("IndexError")
          ELSE LET time_unit == f.index[2] - f.index[1]
                   pt == [i \in DOMAIN f.rows |-> [d \in f.cols |-> f.rows[i][d] * time_unit]]
               IN Return([c \in f.cols |-> <<ColSum(pt, c), 1>>])

\* The (attr_name, attr_func) pairs attribute_average_up is called with, by
\* PedarNode.sensor_peak and PedarNode.sensor_pti.
AttrCalls == {<<"sensor_peak", "sensor_peak">>, <<"sensor_pti", "sensor_pti">>}

\* attr_func(node) added to the value the node holds from an earlier call
ApplyAttrFuncAdding(attr_func, h, node) ==
  LET v == IF attr_func = "sensor_peak" THEN sensor_peak(h, node) ELSE sensor_pti(h, node)
      d == IF h.attribute[node] = NoObj THEN EmptyDict ELSE h.dicts[h.attribute[node]]
  IN IF v.exc = "None" /\ attr_func \in DOMAIN d /\ DOMAIN d[attr_func] = DOMAIN v.val
     THEN Return([c \in DOMAIN v.val |-> RatAdd(v.val[c], d[attr_func][c])])
     ELSE v

\* attr_func(node)
ApplyAttrFunc(attr_func, h, node) ==
  IF attr_func = "sensor_peak" THEN sensor_peak(h, node) ELSE sensor_pti(h, node)

\* pd.concat(series, axis=1).sum(axis=1): the rows are summed, not averaged
ConcatSum(series) ==
  LET index == UNION {DOMAIN series[i] : i \in DOMAIN series}
  IN [c \in index |-> RatSum(SelectIdx(series, c))]

\* pd.concat(series, axis=1).mean(axis=1): the frame's index is the union of
\* the series' indexes (an outer join, a series without a sensor id gets NaN
\* there), and the mean of a row skips its NaN.
ConcatMean(series) ==
  LET index == UNION {DOMAIN series[i] : i \in DOMAIN series}
  IN [c \in index |->
        LET present == SelectIdx(series, c)
            total == RatSum(present)
        IN Rat(total[1], total[2] * Len(present))]

\* node.attribute = {attr_name: value}: the other statistics are lost
SetAttributeOnly(h, node, attr_name, value) ==
  [h EXCEPT !.dicts[h.attribute[node]] = [k \in {attr_name} |-> value]]

\* node.attribute[attr_name] = value
SetAttribute(h, node, attr_name, value) ==
  LET d == h.dicts[h.attribute[node]]
  IN [h EXCEPT !.dicts[h.attribute[node]] =
        [k \in DOMAIN d \cup {attr_name} |-> IF k = attr_name THEN value ELSE d[k]]]

\* Python's recursion limit stands for "deeper than any acyclic tree of the
\* pool": a recursion that deep runs round a cycle, and ends in RecursionError.
RecursionLimit == NumNodes + 1

\* analyse.attribute_average_up: [h |-> the heap when the call ends,
\* exc |-> "None" or the exception that ended it].  `depth` is the depth of
\* the call stack; i, acc are the position in `for branch in node.branches()`
\* and branch_attribute_list (i = 0: the call has just been entered).
RECURSIVE attribute_average_up_at(_, _, _, _, _, _, _)
attribute_average_up_at(h, node, attr_name, attr_func, depth, i, acc) ==
  IF i = 0 /\ depth > RecursionLimit THEN [h |-> h, exc |-> "RecursionError"]
  ELSE IF i = 0 /\ is_leaf(h, node)
  THEN LET v == ApplyAttrFunc(attr_func, h, node)
       IN IF v.exc # "None" THEN [h |-> h, exc |-> v.exc]
          ELSE IF h.attribute[node] = NoObj THEN [h |-> h, exc |-> "AttributeError"]
          ELSE [h |-> SetAttribute(h, node, attr_name, v.val), exc |-> "None"]
  ELSE IF i = 0
  THEN attribute_average_up_at(h, node, attr_name, attr_func, depth, 1, <<>>)
  ELSE IF i <= Len(branches(h, node))
  THEN LET branch == branches(h, node)[i]
           r == attribute_average_up_at(h, branch, attr_name, attr_func, depth + 1, 0, <<>>)
       IN IF r.exc # "None" THEN r
          ELSE attribute_average_up_at(r.h, node, attr_name, attr_func, depth, i + 1,
                 Append(acc, r.h.dicts[r.h.attribute[branch]][attr_name]))
  ELSE IF h.attribute[node] = NoObj THEN [h |-> h, exc |-> "AttributeError"]
  ELSE [h |-> SetAttribute(h, node, attr_name, ConcatMean(acc)), exc |-> "None"]

\* an averaging up that goes one node further: the node the call is made on
\* hands its value to its source as well
attribute_average_up_to_source(h, node, attr_name, attr_func) ==
  LET r == attribute_average_up_at(h, node, attr_name, attr_func, 1, 0, <<>>)
  IN IF r.exc # "None" \/ h.source[node] = NoNode \/ h.attribute[h.source[node]] = NoObj
     THEN r
     ELSE [h |-> SetAttribute(r.h, h.source[node], attr_name,
                              r.h.dicts[r.h.attribute[node]][attr_name]),
           exc |-> "None"]

attribute_average_up(h, node, attr_name, attr_func) ==
  attribute_average_up_at(h, node, attr_name, attr_func, 1, 0, <<>>)

AttributeAverageUpWithin(budget) ==
  /\ calls < budget
  /\ \E node \in Allocated, call \in AttrCalls :
       LET r == attribute_average_up(H, node, call[1], call[2])
       IN /\ Install(r.h)
          /\ last' = [NoCall EXCEPT !.op = "attribute_average_up", !.self = node,
                                    !.result = r.exc, !.attr_name = call[1],
                                    !.attr_func = call[2],
                                    !.again = /\ last.op = "attribute_average_up"
                                              /\ last.self = node
                                              /\ last.attr_name = call[1]
                                              /\ last.attr_func = call[2]]
  /\ calls' = calls + 1

\* ------------------------------------------------------- src/analyse.py
\* sensor_peak of src/analyse.py, the aggregation of the first revision:
\* a node of level 5 is taken for a stance, a node above it for a branch, a
\* node below it is refused with a message and a normal return.
RECURSIVE legacy_sensor_peak_at(_, _, _, _, _)
legacy_sensor_peak_at(h, node, depth, i, acc) ==
  IF i = 0 /\ depth > RecursionLimit THEN [h |-> h, exc |-> "RecursionError"]
  ELSE IF i = 0 /\ h.level[node] = StanceLevel
  THEN LET v == sensor_peak(h, node)
       IN IF v.exc # "None" THEN [h |-> h, exc |-> v.exc]
          ELSE [h |-> [h EXCEPT !.peak[node] = [set |-> TRUE, val |-> v.val]], exc |-> "None"]
  ELSE IF i = 0 /\ h.level[node] > StanceLevel
  THEN \* print("Invalid level")
       [h |-> h, exc |-> "None"]
  ELSE IF i = 0
  THEN legacy_sensor_peak_at(h, node, depth, 1, <<>>)
  ELSE IF i <= Len(branches(h, node))
  THEN LET branch == branches(h, node)[i]
           r == legacy_sensor_peak_at(h, branch, depth + 1, 0, <<>>)
       IN IF r.exc # "None" THEN r
          ELSE IF ~r.h.peak[branch].set THEN [h |-> r.h, exc |-> "AttributeError"]
          ELSE legacy_sensor_peak_at(r.h, node, depth, i + 1, Append(acc, r.h.peak[branch].val))
  ELSE IF acc = <<>>
  THEN \* pd.concat of an empty list
       [h |-> h, exc |-> "ValueError"]
  ELSE [h |-> [h EXCEPT !.peak[node] = [set |-> TRUE, val |-> ConcatMean(acc)]], exc |-> "None"]

legacy_sensor_peak(h, node) == legacy_sensor_peak_at(h, node, 1, 0, <<>>)

LegacySensorPeakWithin(budget) ==
  /\ calls < budget
  /\ \E node \in Allocated :
       LET r == legacy_sensor_peak(H, node)
       IN /\ Install(r.h)
          /\ last' = [NoCall EXCEPT !.op = "analyse.sensor_peak", !.self = node,
                                    !.result = r.exc, !.attr_name = "sensor_peak",
                                    !.attr_func = "sensor_peak"]
  /\ calls' = calls + 1

\* ------------------------------------------------------------ DynamicNode
\* key in loc_map
HasLayer(m, layer) == \E i \in DOMAIN m : m[i][1] = layer

\* loc_map[layer], of a layer the map has
LayerLevel(m, layer) == m[CHOOSE i \in DOMAIN m : m[i][1] = layer][2]

\* DynamicNode.is_layer: [exc |-> "None" or the exception, val |-> the answer]
is_layer(h, n, layer) ==
  IF h.loc_map[n] = NoObj THEN [exc |-> "AttributeError", val |-> FALSE]
  ELSE IF ~HasLayer(h.default_loc_map, layer) THEN [exc |-> "KeyError", val |-> FALSE]
  ELSE [exc |-> "None", val |-> h.level[n] = LayerLevel(h.default_loc_map, layer)]

\* get_key_with_value of layer_layout: the first key with the value, or None
get_key_with_value(d, value) ==
  LET hit == {i \in DOMAIN d : d[i][2] = value}
  IN IF hit = {} THEN PyNone ELSE d[Min(hit)][1]

\* DynamicNode.layer_layout: [exc |-> "None" or the exception, val |-> the tuple]
layer_layout(h, n) ==
  IF h.loc_map[n] = NoObj THEN [exc |-> "AttributeError", val |-> <<>>]
  ELSE LET d == h.default_loc_map
       IN IF d = <<>> THEN \* max of an empty list
               [exc |-> "ValueError", val |-> <<>>]
          ELSE LET start_index == h.level[n]
                   end_index == Max({d[i][2] : i \in DOMAIN d})
               IN [exc |-> "None",
                   val |-> [i \in 1..(end_index + 1 - start_index) |->
                              get_key_with_value(d, start_index + i - 1)]]

\* the second loop of change_loc_map: self.loc_map[layout[idx]] = start_index + idx
\* (idx counts from 1 here)
RECURSIVE AssignLayers(_, _, _, _)
AssignLayers(m, layout, start_index, idx) ==
  IF idx > Len(layout) THEN m
  ELSE AssignLayers(SetItem(m, layout[idx], start_index + idx - 1), layout, start_index, idx + 1)

\* DynamicNode.change_loc_map: the dict self.loc_map refers to is changed in
\* place.  [h |-> the heap after the call, exc |-> "None" or the exception]
change_loc_map(h, n, start_level, layout) ==
  IF h.loc_map[n] = NoObj THEN [h |-> h, exc |-> "AttributeError"]
  ELSE LET kept == SelectSeq(h.default_loc_map, LAMBDA it : it[2] < start_level)
       IN [h |-> [h EXCEPT !.default_loc_map = AssignLayers(kept, layout, start_level, 1)],
           exc |-> "None"]

\* Node.collect_leaf(nodes=[]): [exc |-> "None" or the exception, nodes |-> the
\* list]; depth, i as in attribute_average_up_at
RECURSIVE collect_leaf_at(_, _, _, _, _)
collect_leaf_at(h, node, nodes, depth, i) ==
  IF i = 0 /\ depth > RecursionLimit THEN [exc |-> "RecursionError", nodes |-> nodes]
  ELSE IF i = 0 /\ is_leaf(h, node) THEN [exc |-> "None", nodes |-> Append(nodes, node)]
  ELSE IF i = 0 THEN collect_leaf_at(h, node, nodes, depth, 1)
  ELSE IF i <= Len(branches(h, node))
  THEN LET r == collect_leaf_at(h, branches(h, node)[i], nodes, depth + 1, 0)
       IN IF r.exc # "None" THEN r ELSE collect_leaf_at(h, node, r.nodes, depth, i + 1)
  ELSE [exc |-> "None", nodes |-> nodes]

collect_leaf(h, node) == collect_leaf_at(h, node, <<>>, 1, 0)

\* a collect_leaf that starts from a list of its own, whatever list is passed
collect_leaf_afresh(h, node, nodes) == collect_leaf_at(h, node, <<>>, 1, 0)

\* self.collect_leaf(nodes)
collect_leaf_onto(h, node, nodes) == collect_leaf_at(h, node, nodes, 1, 0)

\* the object a constructor call gives: a node not in use
NewNode(h) == Min({n \in NodeIds : h.cls[n] = NoClass})

\* a copy that is not clean: the attribute mapping is deep-copied with the
\* name, loc and level
clean_copy_with_attribute(h, self, new_node) ==
  IF h.cls[self] = "DataNode" THEN [h |-> h, exc |-> "TypeError"]
  ELSE LET h1 == setup(h, new_node, h.cls[self], h.name[self], NoRec)
       IN [h |-> [h1 EXCEPT !.lists[h1.loc[new_node]] = h.lists[h.loc[self]],
                            !.level[new_node] = h.level[self],
                            !.dicts[h1.attribute[new_node]] = h.dicts[h.attribute[self]]],
           exc |-> "None"]

\* a copy that leaves the level as setup made it
clean_copy_without_level(h, self, new_node) ==
  IF h.cls[self] = "DataNode" THEN [h |-> h, exc |-> "TypeError"]
  ELSE LET h1 == setup(h, new_node, h.cls[self], h.name[self], NoRec)
       IN [h |-> [h1 EXCEPT !.lists[h1.loc[new_node]] = h.lists[h.loc[self]]],
           exc |-> "None"]

\* Node.clean_copy, the copy being object new_node.  A DataNode has no clean
\* copy: its setup is called with the name alone, without df, start and end.
clean_copy(h, self, new_node) ==
  IF h.cls[self] = "DataNode" THEN [h |-> h, exc |-> "TypeError"]
  ELSE LET h1 == setup(h, new_node, h.cls[self], h.name[self], NoRec)
       IN [h |-> [h1 EXCEPT !.lists[h1.loc[new_node]] = h.lists[h.loc[self]],
                            !.level[new_node] = h.level[self]],
           exc |-> "None"]

\* ' - '.join(items)
RECURSIVE Join(_)
Join(s) ==
  IF s = <<>> THEN ""
  ELSE IF Len(s) = 1 THEN s[1]
  ELSE s[1] \o " - " \o Join(Tail(s))

\* --------------------------------------------------------------- restructure
\* The loops of restructure are written one step an operator, each result
\* handed to the next step as an argument.

\* branch_node = PedarNode(); branch_node.setup(name);
\* branch_node.change_loc_map(new_node.level, layout); current_node.add_branch(branch_node)
AddNewBranch(h, new_node, cur, nm, layout) ==
  add_branch(change_loc_map(setup(h, NewNode(h), "PedarNode", nm, NoRec),
                            NewNode(h), h.level[new_node], layout).h,
             cur, NewNode(h)).h

\* if name not in current_node.branch_names(): ...
EnsureBranch(h, new_node, cur, nm, layout) ==
  IF nm \notin Range(branch_names(h, cur))
  THEN AddNewBranch(h, new_node, cur, nm, layout)
  ELSE h

\* `for layer in layout[1:-1]` of restructure, at layout[j] (counted from 1):
\* cur is current_node, locl the copy of leaf.loc.
\* [h, exc, cur, loc] when the loop ends or an exception ends it.
RECURSIVE restructure_layers(_, _, _, _, _, _, _)

\* current_node = current_node[name], and the next layer
NextLayer(h, new_node, leaf, layout, j, cur, nm, locl) ==
  restructure_layers(h, new_node, leaf, layout, j + 1, GetItem(h.items[cur], nm), locl)

\* name = loc[k]; loc[k] = None; the branch of that name
LayerAt(h, new_node, leaf, layout, j, cur, locl, k) ==
  IF k >= Len(locl)
  THEN [h |-> h, exc |-> "IndexError", cur |-> cur, loc |-> locl]
  ELSE NextLayer(EnsureBranch(h, new_node, cur, locl[k + 1], layout),
                 new_node, leaf, layout, j, cur, locl[k + 1],
                 [locl EXCEPT ![k + 1] = PyNone])

restructure_layers(h, new_node, leaf, layout, j, cur, locl) ==
  IF j > Len(layout) - 1 THEN [h |-> h, exc |-> "None", cur |-> cur, loc |-> locl]
  ELSE IF h.loc_map[leaf] = NoObj
  THEN [h |-> h, exc |-> "AttributeError", cur |-> cur, loc |-> locl]
  ELSE IF ~HasLayer(h.default_loc_map, layout[j])
  THEN [h |-> h, exc |-> "KeyError", cur |-> cur, loc |-> locl]
  ELSE LayerAt(h, new_node, leaf, layout, j, cur, locl,
               LayerLevel(h.default_loc_map, layout[j]))

\* current_node.add_branch(leaf_node): a leaf_node that was not added is
\* garbage (h is the heap before it was constructed, h2 the heap with it)
AddedOrNot(h, h2, a) ==
  IF a.warned THEN [h EXCEPT !.default_loc_map = h2.default_loc_map] ELSE a.h

AddLeafNode(h, h2, cur, leaf_node) == AddedOrNot(h, h2, add_branch(h2, cur, leaf_node))

\* leaf_node = DataNode(); leaf_node.setup(name=leaf_name, df=..., start=..., end=...);
\* leaf_node.change_loc_map(new_node.level, layout); current_node.add_branch(leaf_node)
AddNewLeaf(h, new_node, cur, leaf_name, rec, layout) ==
  AddLeafNode(h,
              change_loc_map(setup(h, NewNode(h), "DataNode", leaf_name, rec),
                             NewNode(h), h.level[new_node], layout).h,
              cur, NewNode(h))

\* `for leaf in leaf_nodes` of restructure, at leaf_nodes[i].
\* [h, exc] when the loop ends or an exception ends it.
RECURSIVE restructure_leaves(_, _, _, _, _, _)

\* the loop body with loc = leaf.loc in place of the deep copy: the entries
\* set to None are those of the leaf's own list
PlaceLeafSharingLoc(h, self, new_node, layout, leaf_nodes, i, r) ==
  IF r.exc # "None" THEN [h |-> r.h, exc |-> r.exc]
  ELSE IF h.df[leaf_nodes[i]] = NoFrame THEN [h |-> r.h, exc |-> "AttributeError"]
  ELSE restructure_leaves(
         AddNewLeaf([r.h EXCEPT !.lists[h.loc[leaf_nodes[i]]] = r.loc],
                    new_node, r.cur,
                    Join(SelectSeq(r.loc, LAMBDA item : item # PyNone)),
                    [df |-> h.df[leaf_nodes[i]], start |-> h.start[leaf_nodes[i]],
                     end |-> h.end[leaf_nodes[i]]],
                    layout),
         self, new_node, layout, leaf_nodes, i + 1)

\* the loop body without a leaf_node of its own: the leaf of the source tree
\* is added to the new tree
PlaceLeafItself(h, self, new_node, layout, leaf_nodes, i, r) ==
  IF r.exc # "None" THEN [h |-> r.h, exc |-> r.exc]
  ELSE IF h.df[leaf_nodes[i]] = NoFrame THEN [h |-> r.h, exc |-> "AttributeError"]
  ELSE restructure_leaves(add_branch(r.h, r.cur, leaf_nodes[i]).h,
                          self, new_node, layout, leaf_nodes, i + 1)

\* the rest of the loop body once the layers of the leaf are there (r is
\* what restructure_layers gave), and the next leaf
PlaceLeaf(h, self, new_node, layout, leaf_nodes, i, r) ==
  IF r.exc # "None" THEN [h |-> r.h, exc |-> r.exc]
  ELSE IF h.df[leaf_nodes[i]] = NoFrame THEN [h |-> r.h, exc |-> "AttributeError"]
  ELSE restructure_leaves(
         AddNewLeaf(r.h, new_node, r.cur,
                    Join(SelectSeq(r.loc, LAMBDA item : item # PyNone)),
                    [df |-> h.df[leaf_nodes[i]], start |-> h.start[leaf_nodes[i]],
                     end |-> h.end[leaf_nodes[i]]],
                    layout),
         self, new_node, layout, leaf_nodes, i + 1)

restructure_leaves(h, self, new_node, layout, leaf_nodes, i) ==
  IF i > Len(leaf_nodes) THEN [h |-> h, exc |-> "None"]
  ELSE IF Len(h.lists[h.loc[leaf_nodes[i]]]) < h.level[self] + 1
  THEN [h |-> h, exc |-> "IndexError"]
  ELSE PlaceLeaf(h, self, new_node, layout, leaf_nodes, i,
                 restructure_layers(h, new_node, leaf_nodes[i], layout, 2, new_node,
                   [k \in DOMAIN h.lists[h.loc[leaf_nodes[i]]] |->
                      IF k <= h.level[self] + 1 THEN PyNone
                      ELSE h.lists[h.loc[leaf_nodes[i]]][k]]))

\* return new_node, or the exception: the nodes of a tree that is not
\* returned are garbage; what default_loc_map has become stays.
RestructureResult(h, new_node, r) ==
  IF r.exc # "None"
  THEN [h |-> [h EXCEPT !.default_loc_map = r.h.default_loc_map],
        exc |-> r.exc, ret |-> NoNode]
  ELSE [h |-> r.h, exc |-> "None", ret |-> new_node]

\* new_node.change_loc_map(new_node.level, layout) and the loop over the leaves
RestructureCopy(h, self, layout, leaf_nodes, new_node, c) ==
  IF c.exc # "None" THEN [h |-> h, exc |-> c.exc, ret |-> NoNode]
  ELSE RestructureResult(h, new_node,
         restructure_leaves(change_loc_map(c.h, new_node, c.h.level[new_node], layout).h,
                            self, new_node, layout, leaf_nodes, 1))

\* new_node = self.clean_copy()
RestructureLeaves(h, self, layout, leaf_nodes, new_node) ==
  IF leaf_nodes.exc # "None" THEN [h |-> h, exc |-> leaf_nodes.exc, ret |-> NoNode]
  ELSE RestructureCopy(h, self, layout, leaf_nodes.nodes, new_node,
                       clean_copy(h, self, new_node))

\* DynamicNode.restructure: [h |-> the heap after the call, exc |-> "None" or
\* the exception, ret |-> the node returned]
restructure(h, self, layout) ==
  IF h.loc_map[self] = NoObj THEN [h |-> h, exc |-> "AttributeError", ret |-> NoNode]
  ELSE RestructureLeaves(h, self, layout, collect_leaf(h, self), NewNode(h))

\* ------------------------------------------------------------------- Init
Init ==
  /\ cls = EmptyHeap.cls
  /\ name = EmptyHeap.name
  /\ level = EmptyHeap.level
  /\ loc = EmptyHeap.loc
  /\ lists = EmptyHeap.lists
  /\ source = EmptyHeap.source
  /\ items = EmptyHeap.items
  /\ attribute = EmptyHeap.attribute
  /\ dicts = EmptyHeap.dicts
  /\ df = EmptyHeap.df
  /\ start = EmptyHeap.start
  /\ end = EmptyHeap.end
  /\ peak = EmptyHeap.peak
  /\ loc_map = EmptyHeap.loc_map
  /\ default_loc_map = EmptyHeap.default_loc_map
  /\ last = NoCall
  /\ calls = 0

AttributeAverageUp == AttributeAverageUpWithin(MaxCalls)

LegacySensorPeak == LegacySensorPeakWithin(MaxCalls)

Next == Setup \/ AddBranch \/ AttributeAverageUp \/ LegacySensorPeak

Spec == Init /\ [][Next]_vars

\* ------------------------------------------------------------------ trees
\* SpecTree starts from a tree built top-down the way trails_parse builds
\* one: node 1 is the root, every other node i is set up and then added to
\* parent[i], a node set up before it.  A node that is given branches is a
\* PedarNode; a node left without any is a DataNode with its leaf record or
\* a PedarNode (a foot without a valid stance).  The trees are the trees of
\* at most MaxTreeNodes nodes and the chains from a root down to one stance.
Parents(k) == {p \in [1..k -> 0..(k - 1)] : \A i \in 1..k : p[i] < i /\ (i > 1 => p[i] >= 1)}

Chain == [i \in 1..ChainLen |-> i - 1]

Shapes == UNION {Parents(k) : k \in 1..MaxTreeNodes} \cup {Chain}

Kinds(k, p) ==
  {r \in [1..k -> LeafInputs \cup {NoRec}] :
     \A i \in 1..k : (\E j \in 1..k : p[j] = i) => r[i] = NoRec}

RECURSIVE BuildTree(_, _, _, _, _, _)
BuildTree(h, i, k, p, nm, rec) ==
  IF i > k THEN h
  ELSE LET h1 == setup(h, i, IF rec[i] = NoRec THEN "PedarNode" ELSE "DataNode", nm[i], rec[i])
           h2 == IF i = 1 THEN h1 ELSE add_branch(h1, p[i], i).h
       IN BuildTree(h2, i + 1, k, p, nm, rec)

InitTree ==
  /\ \E p \in Shapes :
       LET k == Len(p)
       IN \E nm \in [1..k -> Names], rec \in Kinds(k, p) :
           LET h == BuildTree(EmptyHeap, 1, k, p, nm, rec)
           IN /\ cls = h.cls
              /\ name = h.name
              /\ level = h.level
              /\ loc = h.loc
              /\ lists = h.lists
              /\ source = h.source
              /\ items = h.items
              /\ attribute = h.attribute
              /\ dicts = h.dicts
              /\ df = h.df
              /\ start = h.start
              /\ end = h.end
              /\ peak = h.peak
              /\ loc_map = h.loc_map
              /\ default_loc_map = h.default_loc_map
  /\ last = NoCall
  /\ calls = 0

AttributeAverageUpTree == AttributeAverageUpWithin(MaxTreeCalls)

LegacySensorPeakTree == LegacySensorPeakWithin(MaxTreeCalls)

NextTree == AttributeAverageUpTree \/ LegacySensorPeakTree

SpecTree == InitTree /\ [][NextTree]_vars

\* ----------------------------------------------------------------- layouts
\* SpecLayout starts from a tree built as for SpecTree, with default_loc_map
\* as the module defines it, and makes change_loc_map, restructure and
\* attribute_average_up calls on it.

\* the default value of restructure's parameter layout
DefaultLayout == [i \in DOMAIN DefaultLocMap |-> DefaultLocMap[i][1]]

\* The layouts passed: all levels compressed into one, a level moved up with
\* a new name for the compressed level (the example of restructure's
\* docstring), a name repeated, a layout that does not begin with 'root',
\* and the default.
Layouts ==
  { <<"root", "condition">>,
    <<"root", "condition", "compress">>, <<"root", "condition", "condition">>,
    <<"condition", "compress">>, DefaultLayout }

\* the start_level values passed to change_loc_map
StartLevels == 0..1

\* root -> subject -> condition -> trail
Chain4 == <<0, 1, 2, 3>>

\* a root with a branch of one leaf and a leaf of its own
Fork == <<0, 1, 2, 1>>

LayoutLeafInputs == {r \in LeafInputs : r.df \in {Frame1, Frame2}}

LayoutKinds(k, p) ==
  {r \in [1..k -> LayoutLeafInputs \cup {NoRec}] :
     \A i \in 1..k : (\E j \in 1..k : p[j] = i) => r[i] = NoRec}

\* the names of a chain from the root to a stance
ChainNames == [i \in 1..ChainLen |-> IF i % 2 = 1 THEN "a" ELSE "b"]

\* The trees: [p |-> the parent of each node, nm |-> its name, rec |-> its
\* leaf record].  In a Fork the leaf of the root may have the name that the
\* leaf of the branch gets when the two levels are joined.
LayoutTrees ==
  LET Small == UNION {Parents(k) : k \in 1..MaxLayoutNodes} \cup {Chain4}
  IN {[p |-> p, nm |-> nm, rec |-> rec] :
        p \in Small, nm \in UNION {[1..k -> Names] : k \in 1..Len(Chain4)},
        rec \in UNION {LayoutKinds(Len(q), q) : q \in Small}}
     \cup {[p |-> Fork, nm |-> [i \in 1..4 |-> IF i = 4 THEN Join(<<nm[2], nm[3]>>) ELSE nm[i]],
            rec |-> rec] : nm \in [1..3 -> Names], rec \in LayoutKinds(4, Fork)}
     \cup {[p |-> Chain, nm |-> ChainNames, rec |-> rec] : rec \in LayoutKinds(ChainLen, Chain)}

InitOn(trees) ==
  /\ \E t \in trees :
       /\ Len(t.nm) = Len(t.p)
       /\ t.rec \in LayoutKinds(Len(t.p), t.p)
       /\ LET h == BuildTree(EmptyHeap, 1, Len(t.p), t.p, t.nm, t.rec)
          IN /\ cls = h.cls
             /\ name = h.name
             /\ level = h.level
             /\ loc = h.loc
             /\ lists = h.lists
             /\ source = h.source
             /\ items = h.items
             /\ attribute = h.attribute
             /\ dicts = h.dicts
             /\ df = h.df
             /\ start = h.start
             /\ end = h.end
             /\ peak = h.peak
             /\ loc_map = h.loc_map
             /\ default_loc_map = h.default_loc_map
  /\ last = NoCall
  /\ calls = 0

InitLayout == InitOn(LayoutTrees)

AttributeAverageUpLayout == AttributeAverageUpWithin(MaxLayoutCalls)

\* self.change_loc_map(start_level, layout); the call record leaves self out:
\* every node refers to the one dict
ChangeLocMapWithin(budget) ==
  /\ calls < budget
  /\ \E self \in Allocated, start_level \in StartLevels, layout \in Layouts :
       LET r == change_loc_map(H, self, start_level, layout)
       IN /\ Install(r.h)
          /\ last' = [NoCall EXCEPT !.op = "change_loc_map", !.result = r.exc,
                                    !.start_level = start_level, !.layout = layout]
  /\ calls' = calls + 1

ChangeLocMap == ChangeLocMapWithin(MaxLayoutCalls)

\* the nodes restructure constructs are no more than the new root and, for
\* each leaf, a node per layer of the layout below the first
NodesNeeded(h, self, layout) ==
  LET leaf_nodes == collect_leaf(h, self)
      per_leaf == IF Len(layout) > 2 THEN Len(layout) - 1 ELSE 1
  IN 1 + Len(leaf_nodes.nodes) * per_leaf

\* self.restructure(layout), made while the pool has the nodes it may take
RestructureWithin(budget) ==
  /\ calls < budget
  /\ \E self \in Allocated, layout \in Layouts :
       /\ Cardinality(NodeIds \ Allocated) >= NodesNeeded(H, self, layout)
       /\ LET r == restructure(H, self, layout)
          IN /\ Install(r.h)
             /\ last' = [NoCall EXCEPT !.op = "restructure", !.self = self,
                                       !.result = r.exc, !.layout = layout,
                                       !.start_level = level[self], !.ret = r.ret]
  /\ calls' = calls + 1

Restructure == RestructureWithin(MaxLayoutCalls)

NextLayout == AttributeAverageUpLayout \/ ChangeLocMap \/ Restructure

SpecLayout == InitLayout /\ [][NextLayout]_vars

\* ----------------------------------------------------------------- queries
\* SpecQuery starts as SpecLayout does and makes change_loc_map calls and
\* calls of the methods that read a tree: layer_layout, collect_leaf,
\* clean_copy.  last.out is the tuple or list a call returned.

ChangeLocMapQuery == ChangeLocMapWithin(MaxQueryCalls)

\* self.layer_layout()
LayerLayout ==
  /\ calls < MaxQueryCalls
  /\ \E self \in Allocated :
       LET r == layer_layout(H, self)
       IN /\ Install(H)
          /\ last' = [NoCall EXCEPT !.op = "layer_layout", !.self = self,
                                    !.result = r.exc, !.out = r.val]
  /\ calls' = calls + 1

\* self.collect_leaf(nodes), nodes an empty list or a list of one node
CollectLeaf ==
  /\ calls < MaxQueryCalls
  /\ \E self \in Allocated, nodes \in {<<>>} \cup {<<m>> : m \in Allocated} :
       LET r == collect_leaf_onto(H, self, nodes)
       IN /\ Install(H)
          /\ last' = [NoCall EXCEPT !.op = "collect_leaf", !.self = self,
                                    !.result = r.exc, !.nodes = nodes, !.out = r.nodes]
  /\ calls' = calls + 1

\* self.clean_copy(); the object of a call that raises is garbage
CleanCopyWithin(budget) ==
  /\ calls < budget
  /\ \E self \in Allocated :
       LET r == clean_copy(H, self, NewNode(H))
       IN /\ Install(r.h)
          /\ last' = [NoCall EXCEPT !.op = "clean_copy", !.self = self,
                                    !.result = r.exc,
                                    !.ret = IF r.exc = "None" THEN NewNode(H) ELSE NoNode]
  /\ calls' = calls + 1

CleanCopy == CleanCopyWithin(MaxQueryCalls)

NextQuery == ChangeLocMapQuery \/ LayerLayout \/ CollectLeaf \/ CleanCopy

SpecQuery == InitLayout /\ [][NextQuery]_vars

\* ------------------------------------------------------------------ build
\* SpecBuild starts from a tree of up to MaxLayoutNodes nodes and makes the
\* calls that construct nodes and trees: setup, add_branch, clean_copy,
\* restructure, on any node and in any order.

BuildTrees == {t \in LayoutTrees : Len(t.p) <= MaxLayoutNodes}

InitBuild == InitOn(BuildTrees)

SetupBuild == SetupWithin(MaxBuildCalls)

AddBranchBuild == AddBranchWithin(MaxBuildCalls)

CleanCopyBuild == CleanCopyWithin(MaxBuildCalls)

RestructureBuild == RestructureWithin(MaxBuildCalls)

NextBuild == SetupBuild \/ AddBranchBuild \/ CleanCopyBuild \/ RestructureBuild

SpecBuild == InitBuild /\ [][NextBuild]_vars

\* ------------------------------------------------------------------ parse
\* src/pedarProbe/parse.py.  An entry of the guiding file is its asc name
\* 'S<n> <condition> <number>' taken apart as the regular expressions of
\* trails_parse take it apart (subject 'S<n>', condition, number), its
\* sideFoot cell and its stance cells.  A stance cell is NoRec when it is
\* empty or holds no '<start>-<end>'; BadCell when it holds one but the
\* expression for the start or for the end finds nothing in it (as in
\* '1-2', where no character stands between the digits and the '-'); and
\* else the (df, start, end) that add_trail reads for it from the asc file.

Subjects == {"S1", "S2"}
Conditions == {"fast walking", "slow walking"}
TrailNumbers == {"1"}
Feet == {"L", "R"}
BadCell == [df |-> NoFrame, start |-> 0, end |-> 0]
StanceCells == LayoutLeafInputs \cup {NoRec, BadCell}

Entries ==
  {[subject |-> sb, condition |-> c, number |-> k, foot |-> f, stances |-> st] :
     sb \in Subjects, c \in Conditions, k \in TrailNumbers, f \in Feet,
     st \in [1..MaxStances -> StanceCells]}

\* x = PedarNode(); x.setup(name=nm); parent.add_branch(x)
AddPedarNode(h, parent, nm) ==
  add_branch(setup(h, NewNode(h), "PedarNode", nm, NoRec), parent, NewNode(h)).h

\* if nm not in parent.branch_names(): the three lines above
EnsureNamed(h, parent, nm) ==
  IF nm \notin Range(branch_names(h, parent)) THEN AddPedarNode(h, parent, nm) ELSE h

\* a stance node that takes the place of the stance of its name
AddStanceNodeReplacing(h, foot_node, nm, rec) ==
  add_branch_replacing(setup(h, NewNode(h), "DataNode", nm, rec), foot_node, NewNode(h)).h

\* stance_node = DataNode(); stance_node.setup(df, start, end, name=nm);
\* node[condition][trail][foot].add_branch(stance_node)
AddStanceNode(h, foot_node, nm, rec) ==
  AddLeafNode(h, setup(h, NewNode(h), "DataNode", nm, rec), foot_node, NewNode(h))

\* `for idx in range(len(stances))` of add_trail, at stances[idx] (counted
\* from 1): [h |-> the heap when the loop ends, exc |-> "None" or the
\* exception that ended it]
RECURSIVE add_stances(_, _, _, _)
add_stances(h, foot_node, stances, idx) ==
  IF idx > Len(stances) THEN [h |-> h, exc |-> "None"]
  ELSE IF stances[idx] = BadCell
  THEN \* re.search(...) is None: None.group()
       [h |-> h, exc |-> "AttributeError"]
  ELSE IF stances[idx] = NoRec
  THEN \* continue
       add_stances(h, foot_node, stances, idx + 1)
  ELSE add_stances(AddStanceNode(h, foot_node, "stance " \o ToString(idx), stances[idx]),
                   foot_node, stances, idx + 1)

\* the stances are added to node[condition][trail][foot]
AddTrailStances(h, trail_node, foot, stances) ==
  add_stances(h, GetItem(h.items[trail_node], foot), stances, 1)

\* the foot node filled with its stances before it is added to the trail
AddTrailFootFirstFilled(h, trail_node, foot, stances) ==
  [h |-> AddLeafNode(h, add_stances(setup(h, NewNode(h), "PedarNode", foot, NoRec),
                                    NewNode(h), stances, 1).h,
                     trail_node, NewNode(h)),
   exc |-> add_stances(setup(h, NewNode(h), "PedarNode", foot, NoRec),
                       NewNode(h), stances, 1).exc]

\* foot_node = PedarNode(); foot_node.setup(name=foot);
\* node[condition][trail].add_branch(foot_node), and the stances
AddTrailFoot(h, trail_node, foot, stances) ==
  AddTrailStances(AddLeafNode(h, setup(h, NewNode(h), "PedarNode", foot, NoRec),
                              trail_node, NewNode(h)),
                  trail_node, foot, stances)

\* the trail node is there: node[condition][trail]
AddTrailTrail(h, condition_node, trail, foot, stances) ==
  AddTrailFoot(h, GetItem(h.items[condition_node], trail), foot, stances)

\* if trail not in node[condition].branch_names(): ...
AddTrailCondition(h, condition_node, trail, foot, stances) ==
  AddTrailTrail(EnsureNamed(h, condition_node, trail), condition_node, trail, foot, stances)

\* the condition node is there: node[condition]
AddTrailNode(h, node, condition, trail, foot, stances) ==
  AddTrailCondition(h, GetItem(h.items[node], condition), trail, foot, stances)

\* parse.add_trail (reading the asc file apart): [h, exc] as add_stances
add_trail(h, node, condition, trail, foot, stances) ==
  AddTrailNode(EnsureNamed(h, node, condition), node, condition, trail, foot, stances)

\* the root node of trails_parse: the first object it constructs
ParseRoot == 1

\* the loop body of trails_parse for a valid entry e once the subject node
\* is there
ParseSubject(h, e) ==
  add_trail(h, GetItem(h.items[ParseRoot], e.subject), e.condition,
            "trail " \o e.number, e.foot, e.stances)

\* the loop body of trails_parse for a valid entry e: [h, exc] as add_trail
parse_entry(h, e) == ParseSubject(EnsureNamed(h, ParseRoot, e.subject), e)

\* root = PedarNode(); root.setup('root'): trails_parse before its loop
InitParse ==
  /\ LET h == setup(EmptyHeap, ParseRoot, "PedarNode", "root", NoRec)
     IN /\ cls = h.cls
        /\ name = h.name
        /\ level = h.level
        /\ loc = h.loc
        /\ lists = h.lists
        /\ source = h.source
        /\ items = h.items
        /\ attribute = h.attribute
        /\ dicts = h.dicts
        /\ df = h.df
        /\ start = h.start
        /\ end = h.end
        /\ peak = h.peak
        /\ loc_map = h.loc_map
        /\ default_loc_map = h.default_loc_map
  /\ last = NoCall
  /\ calls = 0

\* the nodes an entry may take from the pool: a subject that is not there
\* yet, a condition, a trail, a foot, and a stance for each cell that holds one
EntryNodes(h, e) ==
  (IF e.subject \in Range(branch_names(h, ParseRoot)) THEN 0 ELSE 1) + 3
  + Cardinality({i \in DOMAIN e.stances : e.stances[i] \notin {NoRec, BadCell}})

\* one turn of `for index in doc.index` on an entry whose asc name matches
\* asc_pattern; an exception ends trails_parse
ParseEntry ==
  /\ calls < MaxEntries
  /\ last.op # "invalid asc entry" /\ last.result = "None"
  /\ \E e \in Entries :
       /\ Cardinality(NodeIds \ Allocated) >= EntryNodes(H, e)
       /\ Install(parse_entry(H, e).h)
       /\ last' = [NoCall EXCEPT !.op = "add_trail", !.result = parse_entry(H, e).exc,
                                 !.entry = <<e.subject, e.condition, "trail " \o e.number, e.foot>>,
                                 !.stances = e.stances]
  /\ calls' = calls + 1

\* one turn on an entry whose asc name does not match: the message is
\* printed and the loop is left
InvalidEntry ==
  /\ calls < MaxEntries
  /\ last.op # "invalid asc entry" /\ last.result = "None"
  /\ Install(H)
  /\ last' = [NoCall EXCEPT !.op = "invalid asc entry"]
  /\ calls' = calls + 1

NextParse == ParseEntry \/ InvalidEntry

SpecParse == InitParse /\ [][NextParse]_vars

\* =================================================================== claims
heapvars == <<cls, name, level, loc, lists, source, items, attribute, dicts,
              df, start, end, peak, loc_map, default_loc_map>>

\* n.loc and n.attribute, read through the reference
LocOf(n) == lists[loc[n]]
AttrOf(n) == dicts[attribute[n]]
KeysOf(n) == Range(branch_names(H, n))
ChildrenOf(n) == Range(branches(H, n))

\* the nodes reachable from the nodes of S through branches
RECURSIVE Reach(_)
Reach(S) ==
  LET T == S \cup UNION {ChildrenOf(m) : m \in S}
  IN IF T = S THEN S ELSE Reach(T)

Subtree(n) == Reach({n})
LeavesUnder(n) == {m \in Subtree(n) : is_leaf(H, m)}

\* the step is a call self.add_branch(branch_node) ...
IsAddBranch == last'.op = "add_branch" /\ calls' = calls + 1
\* ... made when branch_node.name is / is not among self's branch names
IsDuplicateAdd == IsAddBranch /\ name[last'.arg] \in KeysOf(last'.self)
IsNewAdd == IsAddBranch /\ name[last'.arg] \notin KeysOf(last'.self)

\* C1: every node stored as a child of a node p is one level below p and
\* has p's loc followed by its own name as its loc.
C1_ChildLevelLoc ==
  \A p \in Allocated : \A c \in ChildrenOf(p) :
    /\ level[c] = level[p] + 1
    /\ LocOf(c) = Append(LocOf(p), name[c])

\* C2: every node either holds a leaf record or has at least one child,
\* and never both.
C2_LeafXorBranch ==
  \A n \in Allocated : ~((df[n] # NoFrame) <=> (Len(items[n]) >= 1))

C4_DuplicateAddRaises ==
  [][IsDuplicateAdd => last'.result # "None"]_vars

\* C5: after an add_branch call with a name the node already has, the node
\* passed is the branch stored under that name (it replaced the old one).
C5_DuplicateAddReplaces ==
  [][IsDuplicateAdd => GetItem(items'[last'.self], name[last'.arg]) = last'.arg]_vars

\* C6: after an add_branch call with a new name, the node passed is stored
\* under its name, is one level below self, has self's loc followed by its
\* name as its loc (in a list of its own), has self as its source, and the
\* branches self had keep their places in front of it.
C6_NewAddPostcondition ==
  [][IsNewAdd =>
       LET self == last'.self
           child == last'.arg
       IN /\ GetItem(items'[self], name'[child]) = child
          /\ level'[child] = level'[self] + 1
          /\ lists'[loc'[child]] = Append(lists'[loc'[self]], name'[child])
          /\ loc'[child] # loc'[self]
          /\ source'[child] = self
          /\ items'[self] = Append(items[self], <<name[child], child>>)]_vars

\* the last call was attribute_average_up and it returned
AverageUpReturned == last.op = "attribute_average_up" /\ last.result = "None"

\* the leaves under n all hold data, over one set of sensor ids
SameChannels(n) ==
  /\ \A m \in LeavesUnder(n) : df[m] # NoFrame
  /\ \A m1, m2 \in LeavesUnder(n) : df[m1].cols = df[m2].cols

\* series v is, sensor by sensor, the arithmetic mean of the series of vs
IsMeanOf(v, vs) ==
  /\ \A i \in DOMAIN vs : DOMAIN vs[i] = DOMAIN v
  /\ \A c \in DOMAIN v :
       LET total == RatSum([i \in DOMAIN vs |-> vs[i][c]])
       IN v[c][1] * total[2] * Len(vs) = total[1] * v[c][2]

\* node n holds the statistic: the leaf function's value at a leaf, the
\* mean of its branches' values elsewhere
HoldsStatistic(n, attr_name, attr_func) ==
  /\ attribute[n] # NoObj
  /\ attr_name \in DOMAIN AttrOf(n)
  /\ IF is_leaf(H, n)
     THEN AttrOf(n)[attr_name] = ApplyAttrFunc(attr_func, H, n).val
     ELSE /\ \A b \in ChildrenOf(n) : attribute[b] # NoObj /\ attr_name \in DOMAIN AttrOf(b)
          /\ IsMeanOf(AttrOf(n)[attr_name],
                      [i \in DOMAIN items[n] |-> AttrOf(branches(H, n)[i])[attr_name]])

\* the tree of the spec's scenario: two leaves with peaks {c1: 10, c2: 20}
\* and {c1: 30, c2: 40}
IsScenario(n) ==
  /\ Len(items[n]) = 2
  /\ df[branches(H, n)[1]] = Frame1
  /\ df[branches(H, n)[2]] = Frame2
  /\ \A b \in ChildrenOf(n) : is_leaf(H, b)

ScenarioMean == [c \in Channels |-> IF c = "c1" THEN <<20, 1>> ELSE <<30, 1>>]

\* C7: when attribute_average_up has returned on a tree whose leaves hold
\* data over one set of sensor ids, every leaf of it holds the leaf
\* function's value and every other node the mean of its branches' values.
C7_AverageUpValues ==
  (AverageUpReturned /\ SameChannels(last.self)) =>
     /\ \A n \in Subtree(last.self) : HoldsStatistic(n, last.attr_name, last.attr_func)
     /\ (IsScenario(last.self) /\ last.attr_func = "sensor_peak")
          => AttrOf(last.self)[last.attr_name] = ScenarioMean

C7_Witness ==
  /\ AverageUpReturned
  /\ last.attr_func = "sensor_peak"
  /\ IsScenario(last.self)
  /\ AttrOf(last.self)["sensor_peak"] = ScenarioMean

\* n has two branches whose leaves hold data over different sets of sensor ids
MismatchAt(n) ==
  \E b1, b2 \in ChildrenOf(n) :
    \E m1 \in LeavesUnder(b1), m2 \in LeavesUnder(b2) : df[m1].cols # df[m2].cols

\* C8: attribute_average_up called on a tree in which the branches of some
\* node give results over different sets of sensor ids ends in an error.
C8_ChannelMismatchFails ==
  ( /\ last.op = "attribute_average_up"
    /\ \A m \in LeavesUnder(last.self) : df[m] # NoFrame
    /\ \E n \in Subtree(last.self) : MismatchAt(n) )
  => last.result # "None"

\* the leaf function is defined at every leaf under n
LeafFuncDefined(n, attr_func) ==
  \A m \in LeavesUnder(n) : ApplyAttrFunc(attr_func, H, m).exc = "None"

\* node n holds src/analyse.py's statistic
HoldsPeak(n) ==
  /\ peak[n].set
  /\ IF is_leaf(H, n)
     THEN peak[n].val = sensor_peak(H, n).val
     ELSE /\ \A b \in ChildrenOf(n) : peak[b].set
          /\ IsMeanOf(peak[n].val, [i \in DOMAIN items[n] |-> peak[branches(H, n)[i]].val])

\* C9: an aggregation over a tree whose leaves hold data returns with every
\* node of the tree holding the statistic, whatever the levels of the leaves.
C9_AggregationAtAnyDepth ==
  ( /\ last.op \in {"attribute_average_up", "analyse.sensor_peak"}
    /\ SameChannels(last.self)
    /\ LeafFuncDefined(last.self, last.attr_func) )
  => /\ last.result = "None"
     /\ \A n \in Subtree(last.self) :
          IF last.op = "attribute_average_up"
          THEN HoldsStatistic(n, last.attr_name, last.attr_func)
          ELSE HoldsPeak(n)

\* C10: an attribute_average_up call for one statistic leaves the values
\* of every other statistic on every node as they were, and no two nodes
\* share an attribute dict.
C10_OtherStatisticsKept ==
  [][last'.op = "attribute_average_up" =>
       /\ \A n \in Allocated :
            attribute[n] # NoObj =>
              /\ attribute'[n] = attribute[n]
              /\ \A k \in DOMAIN AttrOf(n) \ {last'.attr_name} :
                   /\ k \in DOMAIN dicts'[attribute'[n]]
                   /\ dicts'[attribute'[n]][k] = AttrOf(n)[k]
       /\ \A n, m \in Allocated :
            (n # m /\ attribute'[n] # NoObj) => attribute'[n] # attribute'[m]]_vars

\* a second statistic was averaged up over a tree that held a first one
C10_Witness ==
  /\ AverageUpReturned
  /\ ~is_leaf(H, last.self)
  /\ \A n \in Subtree(last.self) : DOMAIN AttrOf(n) = StatNames

\* the step is a call of attribute_average_up ...
IsAverageUp == last'.op = "attribute_average_up" /\ calls' = calls + 1
\* ... with the node, statistic name and leaf function of the call before it
IsSecondAverageUp == IsAverageUp /\ last'.again

\* C11: a second attribute_average_up call in a row, with the same node,
\* statistic name and leaf function, leaves every node's attribute[name]
\* with the value it had after the first call.
C11_SecondCallSameValues ==
  [][IsSecondAverageUp =>
       /\ last'.result = last.result
       /\ \A n \in Allocated :
            attribute[n] # NoObj =>
              /\ attribute'[n] = attribute[n]
              /\ DOMAIN dicts'[attribute'[n]] = DOMAIN AttrOf(n)
              /\ last'.attr_name \in DOMAIN AttrOf(n) =>
                   dicts'[attribute'[n]][last'.attr_name] = AttrOf(n)[last'.attr_name]]_vars

\* a second call in a row has returned on a tree with branches
C11_Witness ==
  /\ AverageUpReturned
  /\ last.again
  /\ ~is_leaf(H, last.self)
  /\ \A n \in Subtree(last.self) : last.attr_name \in DOMAIN AttrOf(n)

\* leaf m holds a table of fewer than 2 time samples
FewSamples(m) == df[m] # NoFrame /\ Len(df[m].index) < 2

\* C12: a PTI aggregation over a tree whose leaves hold data, one of them
\* fewer than 2 time samples, ends in InsufficientSamplesError delivered to
\* the caller, and that leaf and its ancestors get no PTI value from the call.
C12_FewSamplesSignalled ==
  [][( /\ IsAverageUp
       /\ last'.attr_func = "sensor_pti"
       /\ \A m \in LeavesUnder(last'.self) : df[m] # NoFrame
       /\ \E m \in LeavesUnder(last'.self) : FewSamples(m) )
     => /\ last'.result = "InsufficientSamplesError"
        /\ \A m \in LeavesUnder(last'.self) :
             FewSamples(m) =>
               \A n \in Subtree(last'.self) :
                 m \in Subtree(n) => dicts'[attribute'[n]] = AttrOf(n)]_vars

\* the step is a call self.restructure(layout) ...
IsRestructure == last'.op = "restructure" /\ calls' = calls + 1
\* ... that returned the root of the new tree
RestructureReturns == IsRestructure /\ last'.result = "None"

\* the leaf records (df, start, end) of the leaves collect_leaf gives, in its order
LeafRecords(h, n) ==
  LET l == collect_leaf(h, n).nodes
  IN [i \in DOMAIN l |-> [df |-> h.df[l[i]], start |-> h.start[l[i]], end |-> h.end[l[i]]]]

Count(s, x) == Cardinality({i \in DOMAIN s : s[i] = x})

SameBag(s, t) == \A x \in Range(s) \cup Range(t) : Count(s, x) = Count(t, x)

\* C13: when restructure returns, collect_leaf on the new tree gives the
\* same multiset of leaf records (df, start, end) as collect_leaf on the
\* source tree: no leaf dropped, none duplicated, none changed.
C13_LeavesPreserved ==
  [][RestructureReturns =>
       SameBag(LeafRecords(H, last'.self), LeafRecords(H', last'.ret))]_vars

\* the node reached from n along the branch names of path, or NoNode
RECURSIVE Walk(_, _, _)
Walk(h, n, path) ==
  IF path = <<>> \/ n = NoNode THEN n
  ELSE Walk(h, GetItem(h.items[n], path[1]), Tail(path))

\* layout[1:-1]
MiddleLayers(layout) == SubSeq(layout, 2, Len(layout) - 1)

\* the items of s from position i on whose positions are not in drop
RECURSIVE KeepFrom(_, _, _)
KeepFrom(s, i, drop) ==
  IF i > Len(s) THEN <<>>
  ELSE (IF i \in drop THEN <<>> ELSE <<s[i]>>) \o KeepFrom(s, i + 1, drop)

\* the depths map m assigns to the layers of mid
DepthsOf(m, mid) == {LayerLevel(m, mid[i]) : i \in DOMAIN mid}

\* where the claim places the source leaf of loc sloc: the names of its
\* ancestors below the new root, then its own name
PlaceOf(m, self_level, mid, sloc) ==
  [i \in DOMAIN mid |-> sloc[LayerLevel(m, mid[i]) + 1]]
  \o <<Join(KeepFrom(sloc, 1, (1..(self_level + 1)) \cup {d + 1 : d \in DepthsOf(m, mid)}))>>

\* C14: when restructure(layout) returns, each source leaf is found in the
\* new tree under the ancestors named by the segments of its loc at the
\* depths the level map gave, before the call, to layout[1:-1], under the
\* name that joins the other segments of its loc below the restructured
\* node, with its leaf record (for the layouts whose layers the map had, at
\* distinct depths below the node's and within the leaf's loc).
C14_LeafPlacement ==
  [][RestructureReturns =>
       LET self == last'.self
           mid == MiddleLayers(last'.layout)
           m == default_loc_map
       IN (\A i \in DOMAIN mid : HasLayer(m, mid[i])) =>
            \A s \in Range(collect_leaf(H, self).nodes) :
              ( /\ \A d \in DepthsOf(m, mid) : d > level[self] /\ d < Len(LocOf(s))
                /\ Cardinality(DepthsOf(m, mid)) = Len(mid) )
              => LET n == Walk(H', last'.ret, PlaceOf(m, level[self], mid, LocOf(s)))
                 IN /\ n # NoNode
                    /\ is_leaf(H', n)
                    /\ df'[n] = df[s] /\ start'[n] = start[s] /\ end'[n] = end[s]]_vars

\* what may stand around the two segments in a joined name
Glue ==
  {"", " - "} \cup {nm \o " - " : nm \in Names} \cup {" - " \o nm : nm \in Names}
  \cup {" - " \o nm \o " - " : nm \in Names}

\* the name nm contains x and, after it, y
ContainsInOrder(nm, x, y) ==
  \E pre \in Glue, mid \in Glue, suf \in Glue : nm = pre \o x \o mid \o y \o suf

\* node n is the root of a tree root -> subject -> condition -> trial (a leaf)
IsChain4(n) ==
  /\ level[n] = 0 /\ Len(items[n]) = 1
  /\ LET subj == branches(H, n)[1]
     IN /\ Len(items[subj]) = 1
        /\ LET cond == branches(H, subj)[1]
           IN /\ Len(items[cond]) = 1
              /\ is_leaf(H, branches(H, cond)[1])
              /\ df[branches(H, cond)[1]] # NoFrame

\* C15: restructuring the root of root -> subjectA -> conditionX -> trial1,
\* with the level map root=0, subject=1, condition=2, by the level order
\* (root, condition) returns a tree whose root has a branch named
\* conditionX with one child, a leaf whose name contains subjectA and then
\* trial1.
C15_CompressionScenario ==
  [][( /\ IsRestructure
       /\ IsChain4(last'.self)
       /\ last'.layout = <<"root", "condition">>
       /\ \A i \in 1..3 : default_loc_map[i] = DefaultLocMap[i] )
     => /\ last'.result = "None"
        /\ LET subj == branches(H, last'.self)[1]
               cond == branches(H, subj)[1]
               trial == branches(H, cond)[1]
               b == GetItem(items'[last'.ret], name[cond])
           IN /\ b # NoNode
              /\ Len(items'[b]) = 1
              /\ is_leaf(H', branches(H', b)[1])
              /\ ContainsInOrder(name'[branches(H', b)[1]], name[subj], name[trial])]_vars

\* the level map node n refers to in heap h
LocMapOf(h, n) == IF h.loc_map[n] = LocMapObj THEN h.default_loc_map ELSE <<>>

\* the layer names asked about
LayerNames == {DefaultLocMap[i][1] : i \in DOMAIN DefaultLocMap} \cup {"compress"}

\* C16: when restructure returns, every node of the source tree has the same
\* name-to-depth pairs in its loc_map as before the call, is_layer and
\* layer_layout answer on it as before, and the loc_map of the new tree is
\* another object than the source's.
C16_SourceLevelMapKept ==
  [][RestructureReturns =>
       /\ \A n \in Subtree(last'.self) :
            /\ loc_map'[n] = loc_map[n]
            /\ Range(LocMapOf(H', n)) = Range(LocMapOf(H, n))
            /\ \A layer \in LayerNames : is_layer(H', n, layer) = is_layer(H, n, layer)
            /\ layer_layout(H', n) = layer_layout(H, n)
       /\ loc_map'[last'.ret] # loc_map[last'.self]]_vars

\* C17: a call of restructure leaves every node of the source tree with the
\* name, level, loc, source, branches (keys, order, objects) and attribute
\* mapping it had, and every source leaf with its df, start and end.
C17_SourceTreeKept ==
  [][IsRestructure =>
       \A n \in Subtree(last'.self) :
         /\ cls'[n] = cls[n] /\ name'[n] = name[n] /\ level'[n] = level[n]
         /\ loc'[n] = loc[n] /\ lists'[loc[n]] = lists[loc[n]]
         /\ source'[n] = source[n]
         /\ items'[n] = items[n]
         /\ attribute'[n] = attribute[n]
         /\ attribute[n] # NoObj => dicts'[attribute[n]] = dicts[attribute[n]]
         /\ df'[n] = df[n] /\ start'[n] = start[n] /\ end'[n] = end[n]]_vars

\* restructure has returned a tree with a branch between its root and two
\* leaves of it
C17_Witness ==
  /\ last.op = "restructure" /\ last.result = "None"
  /\ \E b \in ChildrenOf(last.ret) :
       ~is_leaf(H, b) /\ Cardinality(LeavesUnder(b)) >= 1
  /\ Cardinality(LeavesUnder(last.ret)) >= 2

\* the nodes reachable in heap h from the nodes of S through branches
RECURSIVE ReachIn(_, _)
ReachIn(h, S) ==
  LET T == S \cup UNION {Range(branches(h, m)) : m \in S}
  IN IF T = S THEN S ELSE ReachIn(h, T)

\* C18: every node of a tree restructure returns (the new root, the
\* branches, the leaves) has an attribute mapping and it is empty,
\* whatever statistics the source tree holds.
C18_NewTreeWithoutStatistics ==
  [][RestructureReturns =>
       \A n \in ReachIn(H', {last'.ret}) :
         /\ attribute'[n] # NoObj
         /\ dicts'[attribute'[n]] = EmptyDict]_vars

\* restructure has returned a tree of at least two nodes from a node that
\* holds a statistic, as does a leaf under it
C18_Witness ==
  /\ last.op = "restructure" /\ last.result = "None"
  /\ AttrOf(last.self) # EmptyDict
  /\ \E m \in LeavesUnder(last.self) : m # last.self /\ AttrOf(m) # EmptyDict
  /\ Cardinality(Subtree(last.ret)) >= 2

\* the layout names a layer that level map m does not have
NamesUnknownLayer(layout, m) == \E i \in DOMAIN layout : ~HasLayer(m, layout[i])

\* C19: a call of restructure with a layout that names a layer the level
\* map of the source tree does not have ends in an error, returns no tree,
\* and leaves every node and the level map as they were.
C19_UnknownLayerRefused ==
  [][(IsRestructure /\ NamesUnknownLayer(last'.layout, LocMapOf(H, last'.self)))
     => /\ last'.result # "None"
        /\ last'.ret = NoNode
        /\ UNCHANGED heapvars]_vars

\* level map m maps its names one-to-one onto the depths 0 .. Len(m) - 1,
\* 'root' onto 0
IsLevelMap(m) ==
  /\ m # <<>>
  /\ {m[i][2] : i \in DOMAIN m} = 0..(Len(m) - 1)
  /\ HasLayer(m, "root") /\ LayerLevel(m, "root") = 0

\* C20: after any calls of change_loc_map and restructure the level map
\* maps its names one-to-one onto contiguous depths from 0, with 'root' at
\* depth 0.
C20_LevelMapWellFormed == \A n \in Allocated : loc_map[n] # NoObj => IsLevelMap(LocMapOf(H, n))

\* the step is a call self.layer_layout()
IsLayerLayout == last'.op = "layer_layout" /\ calls' = calls + 1

\* the greatest depth of level map m
MaxDepth(m) == Max({m[i][2] : i \in DOMAIN m})

\* C21: layer_layout() on a node at level d returns the names its level map
\* assigns to the depths d, d + 1, .., maxDepth, in that order: one name for
\* each of these depths, none missing.
C21_LayerLayoutCoversDepths ==
  [][IsLayerLayout =>
       LET n == last'.self
           m == LocMapOf(H, n)
           t == last'.out
       IN /\ last'.result = "None"
          /\ Len(t) = IF MaxDepth(m) >= level[n] THEN MaxDepth(m) - level[n] + 1 ELSE 0
          /\ \A i \in DOMAIN t :
               /\ t[i] # PyNone
               /\ HasLayer(m, t[i])
               /\ LayerLevel(m, t[i]) = level[n] + i - 1]_vars

\* the step is a call self.collect_leaf(nodes)
IsCollectLeaf == last'.op = "collect_leaf" /\ calls' = calls + 1

\* leaf x comes before leaf y in the depth-first walk from n that takes the
\* branches of a node in the order they were added
LeafBefore(n, x, y) ==
  \E a \in Subtree(n) :
    \E i, j \in DOMAIN branches(H, a) :
      /\ i < j
      /\ x \in Subtree(branches(H, a)[i])
      /\ y \in Subtree(branches(H, a)[j])

\* C22: collect_leaf(nodes) returns nodes followed by the leaves under the
\* node (the node itself when it is a leaf), each once, in the order of the
\* depth-first walk that takes branches in insertion order.
C22_CollectLeafDepthFirst ==
  [][IsCollectLeaf =>
       LET n == last'.self
           pre == last'.nodes
           t == last'.out
       IN /\ last'.result = "None"
          /\ Len(t) = Len(pre) + Cardinality(LeavesUnder(n))
          /\ SubSeq(t, 1, Len(pre)) = pre
          /\ {t[i] : i \in (Len(pre) + 1)..Len(t)} = LeavesUnder(n)
          /\ \A i, j \in (Len(pre) + 1)..Len(t) :
               LeafBefore(n, t[i], t[j]) => i < j]_vars

\* collect_leaf has been called with a list that held a node, on a node
\* with leaves at two depths under it
C22_Witness ==
  /\ last.op = "collect_leaf" /\ last.result = "None"
  /\ last.nodes # <<>>
  /\ \E x, y \in LeavesUnder(last.self) : level[x] < level[y]
  /\ Len(last.out) >= 3

\* the step is a call self.clean_copy()
IsCleanCopy == last'.op = "clean_copy" /\ calls' = calls + 1

\* C23: clean_copy() on a node of a tree, of whatever class and level,
\* returns a new node with the node's name, level and loc (in a list of its
\* own), without branches and without statistics, and leaves the node as
\* it was.
C23_CleanCopy ==
  [][IsCleanCopy =>
       LET n == last'.self
           c == last'.ret
       IN /\ last'.result = "None"
          /\ c \in NodeIds \ Allocated
          /\ cls'[c] = cls[n]
          /\ name'[c] = name[n] /\ level'[c] = level[n]
          /\ lists'[loc'[c]] = LocOf(n) /\ loc'[c] # loc[n]
          /\ items'[c] = <<>>
          /\ attribute'[c] # NoObj => dicts'[attribute'[c]] = EmptyDict
          /\ \A v \in Allocated :
               /\ name'[v] = name[v] /\ level'[v] = level[v]
               /\ loc'[v] = loc[v] /\ lists'[loc[v]] = lists[loc[v]]
               /\ source'[v] = source[v] /\ items'[v] = items[v]
               /\ attribute'[v] = attribute[v]
               /\ df'[v] = df[v] /\ start'[v] = start[v] /\ end'[v] = end[v]]_vars

\* the nodes below n: its branches, their branches, and so on
Descendants(n) == Reach(ChildrenOf(n))

\* C24: in every state setup and add_branch calls lead to, no node is below
\* itself, and no attribute_average_up call has ended in a RecursionError.
C24_AcyclicAndTerminating ==
  /\ \A n \in Allocated : n \notin Descendants(n)
  /\ last.result # "RecursionError"

\* C25: an attribute_average_up call for statistic name changes nothing but
\* the entry attribute[name] of nodes of the subtree it is called on: every
\* node keeps its name, level, loc, source, branches, level map and leaf
\* record, and a node outside the subtree keeps its attribute mapping.
C25_AverageUpWritesAttributeOnly ==
  [][IsAverageUp =>
       /\ default_loc_map' = default_loc_map
       /\ \A n \in NodeIds :
            /\ cls'[n] = cls[n] /\ name'[n] = name[n] /\ level'[n] = level[n]
            /\ loc'[n] = loc[n] /\ (loc[n] # NoObj => lists'[loc[n]] = lists[loc[n]])
            /\ source'[n] = source[n] /\ items'[n] = items[n]
            /\ loc_map'[n] = loc_map[n]
            /\ df'[n] = df[n] /\ start'[n] = start[n] /\ end'[n] = end[n]
            /\ peak'[n] = peak[n]
            /\ attribute'[n] = attribute[n]
       /\ \A n \in Allocated :
            attribute[n] # NoObj =>
              IF n \in Subtree(last'.self)
              THEN /\ DOMAIN dicts'[attribute[n]] \subseteq DOMAIN AttrOf(n) \cup {last'.attr_name}
                   /\ \A k \in DOMAIN AttrOf(n) \ {last'.attr_name} :
                        /\ k \in DOMAIN dicts'[attribute[n]]
                        /\ dicts'[attribute[n]][k] = AttrOf(n)[k]
              ELSE dicts'[attribute[n]] = AttrOf(n)]_vars

\* attribute_average_up has returned from a node that has a source and
\* branches: it and the nodes under it hold the statistic
C25_Witness ==
  /\ AverageUpReturned
  /\ source[last.self] # NoNode
  /\ ~is_leaf(H, last.self)
  /\ \A n \in Subtree(last.self) : last.attr_name \in DOMAIN AttrOf(n)

\* C26: after any setup, add_branch, clean_copy and restructure calls every
\* node has level = len(loc) - 1 and its name as the last item of its loc.
C26_LevelLocName ==
  \A n \in Allocated :
    /\ LocOf(n) # <<>>
    /\ level[n] = Len(LocOf(n)) - 1
    /\ LocOf(n)[Len(LocOf(n))] = name[n]

\* a node below the root has been copied after another call
C26_Witness ==
  /\ last.op = "clean_copy" /\ last.result = "None"
  /\ level[last.ret] >= 1
  /\ calls = MaxBuildCalls

\* the step is a call change_loc_map(start_level, layout)
IsChangeLocMap == last'.op = "change_loc_map" /\ calls' = calls + 1

\* C27: after change_loc_map(start_level, layout) every name the map had at
\* a depth below start_level has that depth, every name it had at
\* start_level or deeper and that is not in layout is gone, and each
\* layout[i] has depth start_level + i (i counted from 0).
C27_ChangeLocMapResult ==
  [][IsChangeLocMap =>
       LET m == default_loc_map
           m2 == default_loc_map'
           start_level == last'.start_level
           layout == last'.layout
       IN /\ \A i \in DOMAIN m :
               m[i][2] < start_level =>
                 HasLayer(m2, m[i][1]) /\ LayerLevel(m2, m[i][1]) = m[i][2]
          /\ \A i \in DOMAIN m :
               (m[i][2] >= start_level /\ m[i][1] \notin Range(layout)) =>
                 ~HasLayer(m2, m[i][1])
          /\ \A i \in DOMAIN layout :
               HasLayer(m2, layout[i]) /\ LayerLevel(m2, layout[i]) = start_level + i - 1]_vars

ParseNames(lv) ==
  CASE lv = 0 -> {"root"}
    [] lv = 1 -> Subjects
    [] lv = 2 -> Conditions
    [] lv = 3 -> {"trail " \o k : k \in TrailNumbers}
    [] lv = 4 -> Feet
    [] OTHER -> {"stance " \o ToString(k) : k \in 1..MaxStances}

\* C29: in the tree trails_parse builds, after any entries, every branch c
\* of a node p has p as its source, level p.level + 1 and loc
\* p.loc + [c.name]; the subject nodes are at level 1, the condition nodes
\* at 2, the trail nodes at 3, the foot nodes at 4 and the stance DataNodes
\* at level 5, and only they.
C29_ParsedTreeLevels ==
  /\ level[ParseRoot] = 0 /\ LocOf(ParseRoot) = <<"root">>
  /\ \A p \in Subtree(ParseRoot) :
       /\ level[p] <= StanceLevel
       /\ name[p] \in ParseNames(level[p])
       /\ (cls[p] = "DataNode") = (level[p] = StanceLevel)
       /\ \A c \in ChildrenOf(p) :
            /\ source[c] = p
            /\ level[c] = level[p] + 1
            /\ LocOf(c) = Append(LocOf(p), name[c])

\* two entries have been read, for the two feet of one trail, with a stance
\* for each foot
C29_Witness ==
  /\ calls = MaxEntries /\ last.op = "add_trail" /\ last.result = "None"
  /\ \E t \in Subtree(ParseRoot) :
       /\ level[t] = 3
       /\ KeysOf(t) = Feet
       /\ \A f \in ChildrenOf(t) : ChildrenOf(f) # {}

\* the step is a turn of trails_parse that calls add_trail
IsAddTrail == last'.op = "add_trail" /\ calls' = calls + 1

\* the name of the stance of cell k
StanceName(k) == "stance " \o ToString(k)

\* the items items2 has after those of items1
AddedItems(items1, items2) == SubSeq(items2, Len(items1) + 1, Len(items2))

====
